---- MODULE Spec2Model ----
(***************************************************************************)
(* Model of pkg/git/service.go: Service.Handler and gitServiceHandler.     *)
(*                                                                         *)
(* One call of Service.Handler is a main goroutine (pc), up to three copy  *)
(* goroutines (cp), the context watcher goroutine that exec.CommandContext *)
(* starts (watch) and the child process (child).  The calls are indexed by *)
(* Calls; the exec.Cmd value, its pipes and its process, by the Cmd that   *)
(* the call created (CmdOf).                                               *)
(***************************************************************************)
EXTENDS Integers, Sequences, FiniteSets, TLC

\* ------------------------------------------------------------------ bounds
\* Capacity of an OS pipe buffer, in bytes.
PipeCap == 1
\* Number of calls of Service.Handler that may run at once.
NCalls == 2

\* Most extra arguments of a request.
MaxArgs == 2

\* Longest input source and longest child output: one byte more than a pipe.
MaxIn == PipeCap + 1
MaxOut == PipeCap + 1

Calls == 1..NCalls
Streams == {"in", "out", "err"}
OutStreams == {"out", "err"}

\* ---------------------------------------------------------------- services
UploadPackService == "git-upload-pack"
UploadArchiveService == "git-upload-archive"
ReceivePackService == "git-receive-pack"
LFSTransferService == "git-lfs-transfer"
LFSAuthenticateService == "git-lfs-authenticate"

\* Service values a caller can pass: the five constants and two others.
ServiceValues ==
    { UploadPackService, UploadArchiveService, ReceivePackService,
      LFSTransferService, LFSAuthenticateService, "git-bogus", "" }

\* strings.TrimPrefix(s, "git-") on the service values.
TrimPrefixGit(s) ==
    CASE s = "git-upload-pack" -> "upload-pack"
      [] s = "git-upload-archive" -> "upload-archive"
      [] s = "git-receive-pack" -> "receive-pack"
      [] s = "git-lfs-transfer" -> "lfs-transfer"
      [] s = "git-lfs-authenticate" -> "lfs-authenticate"
      [] s = "git-bogus" -> "bogus"
      [] OTHER -> s

\* Service.Name
Name(s) == TrimPrefixGit(s)

\* A mis-dispatch: every value that is not one of the two LFS services is
\* handed to the git binary.
HandlerBranchNoDefault(s) ==
    CASE s = LFSTransferService -> "lfsTransfer"
      [] s = LFSAuthenticateService -> "lfsAuthenticate"
      [] OTHER -> "git"

\* The two large-file cases of the switch exchanged.
HandlerBranchSwapped(s) ==
    CASE s \in {UploadPackService, UploadArchiveService, ReceivePackService} -> "git"
      [] s = LFSTransferService -> "lfsAuthenticate"
      [] s = LFSAuthenticateService -> "lfsTransfer"
      [] OTHER -> "unsupported"

\* The branch Service.Handler's switch takes.
HandlerBranch(s) ==
    CASE s \in {UploadPackService, UploadArchiveService, ReceivePackService} -> "git"
      [] s = LFSTransferService -> "lfsTransfer"
      [] s = LFSAuthenticateService -> "lfsAuthenticate"
      [] OTHER -> "unsupported"

\* ------------------------------------------------------------------ errors
\* An error value: its kind, its description and, for an *exec.ExitError, the
\* Stderr field.
Err(kind, detail, stderr) == [kind |-> kind, detail |-> detail, stderr |-> stderr]

NilErr == Err("nil", "", <<>>)
Pending == Err("pending", "", <<>>)
ErrInvalidRepo == Err("ErrInvalidRepo", "", <<>>)

\* fmt.Errorf("unsupported service: %s", s)
UnsupportedErr(s) == Err("unsupported", s, <<>>)

\* errors.Is(err, os.ErrNotExist): true of an *fs.PathError that wraps ENOENT.
\* exec.ErrNotFound (a failed PATH lookup) is a plain errors.New value and is
\* not os.ErrNotExist.
IsNotExist(e) == e.kind = "PathError" /\ e.detail = "ENOENT"

\* ------------------------------------------------------------------- bytes
StreamNo(s) == CASE s = "in" -> 0 [] s = "out" -> 1 [] s = "err" -> 2

\* The i-th byte that call c's source holds (s = "in") or that call c's child
\* writes to stream s: every byte of the model is distinct, so that a byte that
\* is lost, reordered or delivered to another call shows.
Byte(c, s, i) == 100 * c + 10 * StreamNo(s) + i

Bytes(c, s, n) == [i \in 1..n |-> Byte(c, s, i)]

IsPrefix(p, q) == Len(p) <= Len(q) /\ SubSeq(q, 1, Len(p)) = p

\* ----------------------------------------------------------------- request
\* cmd.Args = append(cmd.Args, "-c", ...): the fixed flags.
SafetyFlags ==
    << "-c", "uploadpack.allowFilter=true",
       "-c", "receive.advertisePushOptions=true",
       "-c", "filter.lfs.required=",
       "-c", "filter.lfs.smudge=",
       "-c", "filter.lfs.clean=" >>

\* os.Environ(): the ambient environment, shared by every call and read only.
Environ == << "PATH=/usr/bin", "HOME=/srv" >>

DirOf(c) == "/repos/" \o ToString(c)
EnvOf(c) == << "SOFT_SERVE_REPO=" \o ToString(c) >>
ArgsOf(c, n) == [i \in 1..n |-> "--arg" \o ToString(c) \o "." \o ToString(i)]

\* scmd.CmdFunc: nil, or the caller's function, which may change the Cmd it
\* is handed: one that leaves it as it is and one that appends an argument.
HookKinds == {"nil", "keep", "append"}

\* A ServiceCommand: which streams the caller supplied, the bytes of its input
\* source, the directory, the extra environment and arguments, and the
\* CmdFunc.
Request(c, in, out, err, n, env, nargs, hook) ==
    [ stdin |-> in, stdout |-> out, stderr |-> err,
      input |-> Bytes(c, "in", n),
      dir |-> DirOf(c),
      env |-> IF env THEN EnvOf(c) ELSE <<>>,
      args |-> ArgsOf(c, nargs),
      hook |-> hook ]

Child(exit, nOut, nErr) ==
    [exit |-> exit, n |-> [s \in OutStreams |-> IF s = "out" THEN nOut ELSE nErr]]

\* A child that may stop at any point of reading its input and writing MaxOut
\* bytes to each stream, and one that does all of it and then exits.
FreeChild == Child("any", MaxOut, MaxOut)
FullChild == Child("atEnd", MaxOut, MaxOut)

\* What the program does not decide: how the input source ends, whether a sink
\* may reject a write, how the child behaves, which pipe cannot be created and
\* how the start of the process fails.
\*   src:      after its last byte the source "eof" ends, "faulty" ends or fails
\*             the read, "stall" never returns from the read
\*   sinkFail: the sink of the stream may reject a write
\*   child:    what the child does (Child): the bytes it writes to stdout and
\*             to stderr at most, and whether it may exit at any time
\*             ("any") or exits only when it has read its stdin to
\*             end-of-input and has written all those bytes ("atEnd")
\*   pipeFail: the stream whose os.Pipe fails, or "none"
\*   start:    "ok", "lookpath" (git is not in PATH), "ENOENT" (the directory
\*             or the resolved executable does not exist), "EACCES"
\*   ctx:      "cancellable", or "background" (context.Background(), which is
\*             never cancelled)
World(src, outFail, errFail, child, pipeFail, start, cx) ==
    [ src |-> src, sinkFail |-> [s \in OutStreams |-> IF s = "out" THEN outFail ELSE errFail],
      child |-> child, pipeFail |-> pipeFail, start |-> start, ctx |-> cx ]


\* ------------------------------------------------------------------- state
VARIABLES
    svc,        \* svc[c]: the Service that Handler is called on
    req,        \* req[c]: the ServiceCommand
    world,      \* world[c]: the call's surroundings (World)
    ctx,        \* ctx[c]: "live" or "cancelled"
    pc,         \* pc[c]: where the call's goroutine is
    err,        \* err[c]: gitServiceHandler's variable err (line 88)
    result,     \* result[c]: Pending, or the error returned (NilErr: nil)
    wg,         \* wg[c]: the WaitGroup's counter
    cp,         \* cp[c][s]: the copy goroutine of stream s: none, run, and when
                \* its io.Copy has returned: done (nil), failed (an error)
    copyErr,    \* copyErr[c][s]: the error that io.Copy returned (Pending: none yet)
    inPos,      \* inPos[c]: bytes of the source written to the stdin pipe
    sink,       \* sink[c][s]: the bytes the caller's sink of s has received
    logs,       \* logs[c]: the records passed to log.Errorf
    hookCalls,  \* hookCalls[c]: calls of scmd.CmdFunc
    lfsCalls,   \* lfsCalls[c]: calls of the external large-file handlers
    cmd,        \* cmd[k]: Dir, Args and Env of exec.Cmd k
    fds,        \* fds[k]: the pipe ends of cmd k that are open in this process
    opened,     \* opened[k]: every pipe end of cmd k that was ever opened
    buf,        \* buf[k][s]: the bytes in the pipe of stream s
    child,      \* child[k]: none, running, exit0, exit1, killed
    wrote,      \* wrote[k][s]: the bytes the child has written to stream s
    childIn,    \* childIn[k]: the bytes the child has read from its stdin
    childEOF,   \* childEOF[k]: the child has read end-of-input
    reaped,     \* reaped[k]: Process.Wait has returned
    procErr,    \* procErr[k]: the error cmd.Wait holds after Process.Wait
    watch,      \* watch[k]: the watchCtx goroutine: none, watching, fired, released
    watchErr    \* watchErr[k]: the error the watchCtx goroutine reports

callVars == << svc, req, world, ctx, pc, err, result, wg, cp, copyErr, inPos, sink, logs,
               hookCalls, lfsCalls >>
cmdVars == << cmd, fds, opened, buf, child, wrote, childIn, childEOF, reaped,
              procErr, watch, watchErr >>
vars == << callVars, cmdVars >>

\* A single package-level Cmd that every call reuses.
CmdOfShared(c) == 1

\* cmd := exec.CommandContext(ctx, "git"): every call makes its own Cmd.
CmdOf(c) == c

NoCmd == [dir |-> "", args |-> <<>>, env |-> <<>>]

ParentEnd(s) == CASE s = "in" -> "inW" [] s = "out" -> "outR" [] s = "err" -> "errR"
ChildEnd(s) == CASE s = "in" -> "inR" [] s = "out" -> "outW" [] s = "err" -> "errW"
ChildEnds == {ChildEnd(s) : s \in Streams}

Supplied(c, s) ==
    CASE s = "in" -> req[c].stdin [] s = "out" -> req[c].stdout [] s = "err" -> req[c].stderr

\* The state before any call has begun.  cfg[c] is call c's service, request
\* and surroundings, and whether the call is made at all.
InitWith(cfg) ==
    /\ svc = [c \in Calls |-> cfg[c].svc]
    /\ req = [c \in Calls |-> cfg[c].req]
    /\ world = [c \in Calls |-> cfg[c].world]
    /\ ctx = [c \in Calls |-> "live"]
    /\ pc = [c \in Calls |-> IF cfg[c].active THEN "handler" ELSE "idle"]
    /\ err = [c \in Calls |-> NilErr]
    /\ result = [c \in Calls |-> Pending]
    /\ wg = [c \in Calls |-> 0]
    /\ cp = [c \in Calls |-> [s \in Streams |-> "none"]]
    /\ copyErr = [c \in Calls |-> [s \in Streams |-> Pending]]
    /\ inPos = [c \in Calls |-> 0]
    /\ sink = [c \in Calls |-> [s \in OutStreams |-> <<>>]]
    /\ logs = [c \in Calls |-> {}]
    /\ hookCalls = [c \in Calls |-> 0]
    /\ lfsCalls = [c \in Calls |-> <<>>]
    /\ cmd = [k \in Calls |-> NoCmd]
    /\ fds = [k \in Calls |-> {}]
    /\ opened = [k \in Calls |-> {}]
    /\ buf = [k \in Calls |-> [s \in Streams |-> <<>>]]
    /\ child = [k \in Calls |-> "none"]
    /\ wrote = [k \in Calls |-> [s \in OutStreams |-> <<>>]]
    /\ childIn = [k \in Calls |-> <<>>]
    /\ childEOF = [k \in Calls |-> FALSE]
    /\ reaped = [k \in Calls |-> FALSE]
    /\ procErr = [k \in Calls |-> NilErr]
    /\ watch = [k \in Calls |-> "none"]
    /\ watchErr = [k \in Calls |-> NilErr]

\* return e
Return(c, e) ==
    /\ result' = [result EXCEPT ![c] = e]
    /\ pc' = [pc EXCEPT ![c] = "done"]

\* ---------------------------------------------------------- Service.Handler
\* func (s Service) Handler: the switch.
Handler(c) ==
    /\ pc[c] = "handler"
    /\ LET b == HandlerBranch(svc[c]) IN
         IF b = "unsupported"
         THEN Return(c, UnsupportedErr(svc[c]))
         ELSE /\ pc' = [pc EXCEPT ![c] = IF b = "git" THEN "build" ELSE b]
              /\ UNCHANGED result
    /\ UNCHANGED << svc, req, world, ctx, err, wg, cp, copyErr, inPos, sink, logs, hookCalls,
                    lfsCalls, cmdVars >>

\* The external handler LFSTransfer: it is handed the request and returns nil
\* or an error of its own.
LFSTransfer(c) ==
    /\ pc[c] = "lfsTransfer"
    /\ lfsCalls' = [lfsCalls EXCEPT ![c] = Append(@, [handler |-> "LFSTransfer", cmd |-> req[c]])]
    /\ \E e \in {NilErr, Err("lfs", "LFSTransfer", <<>>)} : Return(c, e)
    /\ UNCHANGED << svc, req, world, ctx, err, wg, cp, copyErr, inPos, sink, logs, hookCalls, cmdVars >>

\* The external handler LFSAuthenticate.
LFSAuthenticate(c) ==
    /\ pc[c] = "lfsAuthenticate"
    /\ lfsCalls' = [lfsCalls EXCEPT ![c] = Append(@, [handler |-> "LFSAuthenticate", cmd |-> req[c]])]
    /\ \E e \in {NilErr, Err("lfs", "LFSAuthenticate", <<>>)} : Return(c, e)
    /\ UNCHANGED << svc, req, world, ctx, err, wg, cp, copyErr, inPos, sink, logs, hookCalls, cmdVars >>

\* ------------------------------------------------------- gitServiceHandler
\* Lines 61-81: the Cmd's Dir, Args and Env.  exec.Command sets Args to the
\* name of the command.
\* The extra arguments appended after the ".".
BuildArgsDotFirst(s, args) == <<"git">> \o SafetyFlags \o <<Name(s)>> \o <<".">> \o args

BuildArgs(s, args) == <<"git">> \o SafetyFlags \o <<Name(s)>> \o args \o <<".">>

BuildEnv(env) == Environ \o env

Build(c) ==
    /\ pc[c] = "build"
    /\ cmd' = [cmd EXCEPT ![CmdOf(c)] =
                 [dir |-> req[c].dir, args |-> BuildArgs(svc[c], req[c].args),
                  env |-> BuildEnv(req[c].env)]]
    /\ pc' = [pc EXCEPT ![c] = "hook"]
    /\ UNCHANGED << svc, req, world, ctx, err, result, wg, cp, copyErr, inPos, sink, logs,
                    hookCalls, lfsCalls, fds, opened, buf, child, wrote, childIn,
                    childEOF, reaped, procErr, watch, watchErr >>

\* The hook is never called.
HookInvokeNone(n) == n

\* scmd.CmdFunc(cmd): one call.
HookInvoke(n) == n + 1

\* What the CmdFunc of kind h makes of cmd.Args.
HookArgs(h, args) == IF h = "append" THEN Append(args, "--hooked") ELSE args

\* Lines 83-85: if scmd.CmdFunc != nil { scmd.CmdFunc(cmd) }
Hook(c) ==
    /\ pc[c] = "hook"
    /\ hookCalls' = [hookCalls EXCEPT ![c] = IF req[c].hook # "nil" THEN HookInvoke(@) ELSE @]
    /\ cmd' = [cmd EXCEPT ![CmdOf(c)].args = HookArgs(req[c].hook, @)]
    /\ pc' = [pc EXCEPT ![c] = "stdinPipe"]
    /\ UNCHANGED << svc, req, world, ctx, err, result, wg, cp, copyErr, inPos, sink, logs,
                    lfsCalls, fds, opened, buf, child, wrote, childIn, childEOF,
                    reaped, procErr, watch, watchErr >>

\* The error of a pipe's creation is kept in err but not tested: the call
\* goes on.
OpenPipeIgnoresErr(c, s, next) ==
    IF Supplied(c, s) /\ world[c].pipeFail # s
    THEN /\ err' = [err EXCEPT ![c] = NilErr]
         /\ fds' = [fds EXCEPT ![CmdOf(c)] = @ \cup {ParentEnd(s), ChildEnd(s)}]
         /\ opened' = [opened EXCEPT ![CmdOf(c)] = @ \cup {ParentEnd(s), ChildEnd(s)}]
         /\ pc' = [pc EXCEPT ![c] = next]
         /\ UNCHANGED result
    ELSE /\ err' = [err EXCEPT ![c] = IF Supplied(c, s) THEN Err("pipe", s, <<>>) ELSE @]
         /\ pc' = [pc EXCEPT ![c] = next]
         /\ UNCHANGED << result, fds, opened >>

\* cmd.StdinPipe, cmd.StdoutPipe, cmd.StderrPipe: os.Pipe makes both ends, or
\* fails and makes none.  The error is returned as it is, and nothing that an
\* earlier pipe opened is closed.
OpenPipe(c, s, next) ==
    IF ~Supplied(c, s)
    THEN /\ pc' = [pc EXCEPT ![c] = next]
         /\ UNCHANGED << err, result, fds, opened >>
    ELSE IF world[c].pipeFail = s
    THEN /\ err' = [err EXCEPT ![c] = Err("pipe", s, <<>>)]
         /\ Return(c, Err("pipe", s, <<>>))
         /\ UNCHANGED << fds, opened >>
    ELSE /\ err' = [err EXCEPT ![c] = NilErr]
         /\ fds' = [fds EXCEPT ![CmdOf(c)] = @ \cup {ParentEnd(s), ChildEnd(s)}]
         /\ opened' = [opened EXCEPT ![CmdOf(c)] = @ \cup {ParentEnd(s), ChildEnd(s)}]
         /\ pc' = [pc EXCEPT ![c] = next]
         /\ UNCHANGED result

\* Lines 94-99
StdinPipe(c) ==
    /\ pc[c] = "stdinPipe"
    /\ OpenPipe(c, "in", "stdoutPipe")
    /\ UNCHANGED << svc, req, world, ctx, wg, cp, copyErr, inPos, sink, logs, hookCalls, lfsCalls,
                    cmd, buf, child, wrote, childIn, childEOF, reaped, procErr, watch,
                    watchErr >>

\* Lines 101-106
StdoutPipe(c) ==
    /\ pc[c] = "stdoutPipe"
    /\ OpenPipe(c, "out", "stderrPipe")
    /\ UNCHANGED << svc, req, world, ctx, wg, cp, copyErr, inPos, sink, logs, hookCalls, lfsCalls,
                    cmd, buf, child, wrote, childIn, childEOF, reaped, procErr, watch,
                    watchErr >>

\* Lines 108-113
StderrPipe(c) ==
    /\ pc[c] = "stderrPipe"
    /\ OpenPipe(c, "err", "start")
    /\ UNCHANGED << svc, req, world, ctx, wg, cp, copyErr, inPos, sink, logs, hookCalls, lfsCalls,
                    cmd, buf, child, wrote, childIn, childEOF, reaped, procErr, watch,
                    watchErr >>

\* What cmd.Start returns: the error of the PATH lookup that exec.Command
\* recorded, else the context's error if it is already cancelled, else the
\* error of os.StartProcess.
StartErr(c) ==
    IF world[c].start = "lookpath" THEN Err("exec.Error", "ErrNotFound", <<>>)
    ELSE IF ctx[c] = "cancelled" THEN Err("ctx", "context canceled", <<>>)
    ELSE IF world[c].start = "ok" THEN NilErr
    ELSE Err("PathError", world[c].start, <<>>)

\* Lines 115-120 without the errors.Is test.
StartResultRaw(e) == e

\* Lines 115-120: what is returned for the error e of cmd.Start.
StartResult(e) == IF IsNotExist(e) THEN ErrInvalidRepo ELSE e

\* Lines 115-120.  A failed Start closes every pipe end of the Cmd; a
\* successful one closes the child's ends in this process and, the context
\* being cancellable, starts the watchCtx goroutine.
Start(c) ==
    /\ pc[c] = "start"
    /\ LET k == CmdOf(c)
           e == StartErr(c) IN
         IF e # NilErr
         THEN /\ fds' = [fds EXCEPT ![k] = {}]
              /\ Return(c, StartResult(e))
              /\ UNCHANGED << child, watch >>
         ELSE /\ fds' = [fds EXCEPT ![k] = @ \ ChildEnds]
              /\ child' = [child EXCEPT ![k] = "running"]
              /\ watch' = [watch EXCEPT ![k] = "watching"]
              /\ pc' = [pc EXCEPT ![c] = "goStdin"]
              /\ UNCHANGED result
    /\ UNCHANGED << svc, req, world, ctx, err, wg, cp, copyErr, inPos, sink, logs, hookCalls,
                    lfsCalls, cmd, opened, buf, wrote, childIn, childEOF, reaped,
                    procErr, watchErr >>

\* wg.Add(1) left out.
WgAddNone(n) == n

\* wg.Add(1)
WgAdd(n) == n + 1

\* defer wg.Done() left out.
WgDoneMissing(n) == n

\* defer wg.Done()
WgDone(n) == n - 1

\* The stdin goroutine counted in the WaitGroup like the other two.
StdinJoined(n) == n + 1

\* Lines 125-132 have no wg.Add: the stdin goroutine is not waited for.
StdinDetached(n) == n

\* Lines 125-132: go func() { defer stdin.Close(); io.Copy(stdin, scmd.Stdin) }
GoStdin(c) ==
    /\ pc[c] = "goStdin"
    /\ cp' = [cp EXCEPT ![c]["in"] = IF req[c].stdin THEN "run" ELSE @]
    /\ wg' = [wg EXCEPT ![c] = IF req[c].stdin THEN StdinDetached(@) ELSE @]
    /\ pc' = [pc EXCEPT ![c] = "goStdout"]
    /\ UNCHANGED << svc, req, world, ctx, err, result, copyErr, inPos, sink, logs, hookCalls,
                    lfsCalls, cmdVars >>

\* Lines 135-143: wg.Add(1); go func() { defer wg.Done(); io.Copy(scmd.Stdout, stdout) }
GoStdout(c) ==
    /\ pc[c] = "goStdout"
    /\ cp' = [cp EXCEPT ![c]["out"] = IF req[c].stdout THEN "run" ELSE @]
    /\ wg' = [wg EXCEPT ![c] = IF req[c].stdout THEN WgAdd(@) ELSE @]
    /\ pc' = [pc EXCEPT ![c] = "goStderr"]
    /\ UNCHANGED << svc, req, world, ctx, err, result, copyErr, inPos, sink, logs, hookCalls,
                    lfsCalls, cmdVars >>

\* Lines 146-154: wg.Add(1); go func() { defer wg.Done(); io.Copy(scmd.Stderr, stderr) }
GoStderr(c) ==
    /\ pc[c] = "goStderr"
    /\ cp' = [cp EXCEPT ![c]["err"] = IF req[c].stderr THEN "run" ELSE @]
    /\ wg' = [wg EXCEPT ![c] = IF req[c].stderr THEN WgAdd(@) ELSE @]
    /\ pc' = [pc EXCEPT ![c] = "wgWait"]
    /\ UNCHANGED << svc, req, world, ctx, err, result, copyErr, inPos, sink, logs, hookCalls,
                    lfsCalls, cmdVars >>

\* The join left out: the exit wait starts at once.
WgWaitSkipped(n) == TRUE

\* wg.Wait() returns when the counter is zero.
WgWaitReturns(n) == n = 0

\* Line 159: wg.Wait()
WgWait(c) ==
    /\ pc[c] = "wgWait"
    /\ WgWaitReturns(wg[c])
    /\ pc' = [pc EXCEPT ![c] = "cmdWait"]
    /\ UNCHANGED << svc, req, world, ctx, err, result, wg, cp, copyErr, inPos, sink, logs,
                    hookCalls, lfsCalls, cmdVars >>

\* The *exec.ExitError that cmd.Wait makes of an unsuccessful process state:
\* &ExitError{ProcessState: state}.  Its Stderr field is filled by cmd.Output
\* alone, so it is empty here.
ExitErrorOf(st) ==
    CASE st = "exit0" -> NilErr
      [] st = "exit1" -> Err("ExitError", "exit status 1", <<>>)
      [] st = "killed" -> Err("ExitError", "signal: killed", <<>>)

\* Line 161, first half of cmd.Wait: Process.Wait returns once the child has
\* exited or was killed.
ProcWait(c) ==
    /\ pc[c] = "cmdWait"
    /\ child[CmdOf(c)] \in {"exit0", "exit1", "killed"}
    /\ reaped' = [reaped EXCEPT ![CmdOf(c)] = TRUE]
    /\ procErr' = [procErr EXCEPT ![CmdOf(c)] = ExitErrorOf(child[CmdOf(c)])]
    /\ pc' = [pc EXCEPT ![c] = "cmdWaitCtx"]
    /\ UNCHANGED << svc, req, world, ctx, err, result, wg, cp, copyErr, inPos, sink, logs,
                    hookCalls, lfsCalls, cmd, fds, opened, buf, child, wrote, childIn,
                    childEOF, watch, watchErr >>

\* Lines 162-173 with the two tests of ErrNotExist left out.
WaitResultRaw(e) ==
    IF e = NilErr THEN NilErr
    ELSE IF e.kind = "ExitError" /\ Len(e.stderr) > 0
         THEN Err("fmt", e.detail, e.stderr)
         ELSE e

\* Lines 162-173: what is returned for the error e of cmd.Wait.
WaitResult(e) ==
    IF e # NilErr /\ IsNotExist(e) THEN ErrInvalidRepo
    ELSE IF e # NilErr
         THEN IF e.kind = "ExitError" /\ Len(e.stderr) > 0
              THEN Err("fmt", e.detail, e.stderr)
              ELSE e
         ELSE NilErr

\* The pipe ends cmd.Wait closes: the parent's.  One that leaves them open.
WaitClosesNone(f) == f

WaitCloses(f) == f \ {ParentEnd(s) : s \in Streams}

\* The first error that a copy ended with stands in for a nil error of
\* cmd.Wait, as if the copiers ran in an errgroup.
WaitErrOrCopy(c, e) ==
    IF e = NilErr /\ \E s \in Streams : copyErr[c][s] \notin {NilErr, Pending}
    THEN copyErr[c][CHOOSE s \in Streams : copyErr[c][s] \notin {NilErr, Pending}]
    ELSE e

\* Line 161: err = cmd.Wait(): the error that is classified is the one of
\* cmd.Wait; what the copiers' io.Copy returned stays in their goroutines.
WaitErr(c, e) == e

\* Lines 161-173, second half of cmd.Wait and the return: cmd.Wait takes the
\* watchCtx goroutine's result (an error only if the goroutine signalled the
\* process, and kept only if Process.Wait gave none), closes the parent's pipe
\* ends and returns; the error is classified and returned.
WaitFinish(c) ==
    /\ pc[c] = "cmdWaitCtx"
    /\ watch[CmdOf(c)] \in {"watching", "fired"}
    /\ LET k == CmdOf(c)
           e == WaitErr(c, IF procErr[k] = NilErr /\ watchErr[k] # NilErr
                           THEN watchErr[k] ELSE procErr[k]) IN
         /\ watch' = [watch EXCEPT ![k] = IF @ = "watching" THEN "released" ELSE @]
         /\ fds' = [fds EXCEPT ![k] = WaitCloses(@)]
         /\ err' = [err EXCEPT ![c] = e]
         /\ Return(c, WaitResult(e))
    /\ UNCHANGED << svc, req, world, ctx, wg, cp, copyErr, inPos, sink, logs, hookCalls,
                    lfsCalls, cmd, opened, buf, child, wrote, childIn, childEOF,
                    reaped, procErr, watchErr >>

\* ---------------------------------------------------------- copy goroutines
\* How the last read of the input source can end: with io.EOF (NilErr), with
\* an error, or not at all.
SrcEnds(kind) ==
    CASE kind = "eof" -> {NilErr}
      [] kind = "faulty" -> {NilErr, Err("read", "source", <<>>)}
      [] kind = "stall" -> {}

\* The stdin copier can take a step: it has a byte to write and the write
\* returns (the pipe has room, or it fails), or the source has ended.
CopyStdinReady(c) ==
    LET k == CmdOf(c) IN
      IF inPos[c] < Len(req[c].input)
      THEN \/ "inW" \notin fds[k]
           \/ child[k] # "running"
           \/ Len(buf[k]["in"]) < PipeCap
      ELSE SrcEnds(world[c].src) # {}

\* The error io.Copy(stdin, scmd.Stdin) ends with at this step (fin at the
\* source's end), or Pending while the copy goes on.
CopyStdinErr(c, fin) ==
    LET k == CmdOf(c) IN
      IF inPos[c] < Len(req[c].input)
      THEN IF "inW" \notin fds[k] THEN Err("write", "file already closed", <<>>)
           ELSE IF child[k] # "running" THEN Err("write", "broken pipe", <<>>)
           ELSE Pending
      ELSE fin

\* A copier that closes the pipe with its first write, not when io.Copy has
\* returned.
StdinClosesEarly(c, e) == TRUE

\* defer stdin.Close(): the stdin pipe is closed when io.Copy has returned.
StdinCloses(c, e) == e # Pending

\* Lines 126-131: one step of the stdin copier: the next byte of the source
\* goes into the stdin pipe; or io.Copy returns, its error is logged and the
\* pipe's write end is closed.
CopyStdin(c) ==
    /\ cp[c]["in"] = "run"
    /\ CopyStdinReady(c)
    /\ \E fin \in IF inPos[c] < Len(req[c].input) THEN {NilErr} ELSE SrcEnds(world[c].src) :
       LET k == CmdOf(c)
           e == CopyStdinErr(c, fin) IN
         /\ IF e = Pending
            THEN /\ buf' = [buf EXCEPT ![k]["in"] = Append(@, req[c].input[inPos[c] + 1])]
                 /\ inPos' = [inPos EXCEPT ![c] = @ + 1]
                 /\ UNCHANGED logs
            ELSE /\ logs' = [logs EXCEPT ![c] =
                               IF e # NilErr THEN @ \cup {[stream |-> "in", err |-> e]} ELSE @]
                 /\ UNCHANGED << buf, inPos >>
         /\ IF StdinCloses(c, e)
            THEN /\ fds' = [fds EXCEPT ![k] = @ \ {"inW"}]
                 /\ cp' = [cp EXCEPT ![c]["in"] = IF e \in {NilErr, Pending} THEN "done" ELSE "failed"]
                 /\ copyErr' = [copyErr EXCEPT ![c]["in"] = e]
            ELSE UNCHANGED << fds, cp, copyErr >>
    /\ UNCHANGED << svc, req, world, ctx, pc, err, result, wg, sink, hookCalls,
                    lfsCalls, cmd, opened, child, wrote, childIn, childEOF, reaped,
                    procErr, watch, watchErr >>

\* The copier of an output stream can take a step: its read returns bytes,
\* end-of-file (the child, the only writer left, is gone) or an error (the
\* read end was closed).
CopyOutReady(c, s) ==
    LET k == CmdOf(c) IN
      \/ ParentEnd(s) \notin fds[k]
      \/ buf[k][s] # <<>>
      \/ child[k] # "running"

\* Lines 139-141: the stdout copier logs the error of its own io.Copy.
LogsStdout(c, e) == IF e # NilErr THEN {[stream |-> "out", err |-> e]} ELSE {}

\* Lines 150-152: the stderr copier tests gitServiceHandler's err, not the
\* erro of its own io.Copy, and logs erro.
LogsStderr(c, e) == IF err[c] # NilErr THEN {[stream |-> "err", err |-> e]} ELSE {}

NewLogs(c, s, e) == IF s = "out" THEN LogsStdout(c, e) ELSE LogsStderr(c, e)

\* One step of io.Copy(sink, pipe) for stream s: a read takes what the pipe
\* holds and a write hands it to the sink, which may reject it; at end-of-file
\* or on an error the copy returns, the goroutine logs and calls wg.Done.
CopyOut(c, s) ==
    /\ cp[c][s] = "run"
    /\ CopyOutReady(c, s)
    /\ LET k == CmdOf(c) IN
         \E ok \in IF world[c].sinkFail[s] THEN BOOLEAN ELSE {TRUE} :
           LET e == IF ParentEnd(s) \notin fds[k] THEN Err("read", "file already closed", <<>>)
                    ELSE IF buf[k][s] # <<>>
                         THEN IF ok THEN Pending ELSE Err("write", "sink", <<>>)
                         ELSE NilErr IN
             /\ IF ParentEnd(s) \in fds[k] /\ buf[k][s] # <<>>
                THEN buf' = [buf EXCEPT ![k][s] = <<>>]
                ELSE UNCHANGED buf
             /\ IF e = Pending
                THEN /\ sink' = [sink EXCEPT ![c][s] = @ \o buf[k][s]]
                     /\ UNCHANGED << cp, copyErr, wg, logs >>
                ELSE /\ logs' = [logs EXCEPT ![c] = @ \cup NewLogs(c, s, e)]
                     /\ cp' = [cp EXCEPT ![c][s] = IF e = NilErr THEN "done" ELSE "failed"]
                     /\ copyErr' = [copyErr EXCEPT ![c][s] = e]
                     /\ wg' = [wg EXCEPT ![c] = WgDone(@)]
                     /\ UNCHANGED sink
    /\ UNCHANGED << svc, req, world, ctx, pc, err, result, inPos, hookCalls, lfsCalls,
                    cmd, fds, opened, child, wrote, childIn, childEOF, reaped, procErr,
                    watch, watchErr >>

\* Lines 137-142
CopyStdout(c) == CopyOut(c, "out")

\* Lines 148-153
CopyStderr(c) == CopyOut(c, "err")

\* -------------------------------------------------------- the child process
\* The child reads a byte of its stdin, or end-of-input: at once when no
\* input source was supplied (its stdin is the null device), else when the
\* pipe is empty and its write end is closed.
ChildRead(c) ==
    /\ child[CmdOf(c)] = "running"
    /\ ~childEOF[CmdOf(c)]
    /\ LET k == CmdOf(c) IN
         /\ req[c].stdin => (buf[k]["in"] # <<>> \/ "inW" \notin fds[k])
         /\ IF req[c].stdin /\ buf[k]["in"] # <<>>
            THEN /\ childIn' = [childIn EXCEPT ![k] = Append(@, Head(buf[k]["in"]))]
                 /\ buf' = [buf EXCEPT ![k]["in"] = Tail(@)]
                 /\ UNCHANGED childEOF
            ELSE /\ childEOF' = [childEOF EXCEPT ![k] = TRUE]
                 /\ UNCHANGED << childIn, buf >>
    /\ UNCHANGED << callVars, cmd, fds, opened, child, wrote, reaped, procErr, watch,
                    watchErr >>

\* The child writes its next byte to stdout or stderr: into the pipe when the
\* caller supplied a sink (the write blocks while the pipe is full), else to
\* the null device.
ChildWrite(c) ==
    /\ child[CmdOf(c)] = "running"
    /\ \E s \in OutStreams :
         LET k == CmdOf(c)
             b == Byte(c, s, Len(wrote[k][s]) + 1) IN
           /\ Len(wrote[k][s]) < world[c].child.n[s]
           /\ Supplied(c, s) => Len(buf[k][s]) < PipeCap
           /\ wrote' = [wrote EXCEPT ![k][s] = Append(@, b)]
           /\ buf' = [buf EXCEPT ![k][s] = IF Supplied(c, s) THEN Append(@, b) ELSE @]
    /\ UNCHANGED << callVars, cmd, fds, opened, child, childIn, childEOF, reaped,
                    procErr, watch, watchErr >>

\* The child exits, with status 0 or 1.
ChildExit(c) ==
    /\ child[CmdOf(c)] = "running"
    /\ \/ world[c].child.exit = "any"
       \/ /\ childEOF[CmdOf(c)]
          /\ \A s \in OutStreams : Len(wrote[CmdOf(c)][s]) = world[c].child.n[s]
    /\ \E st \in {"exit0", "exit1"} : child' = [child EXCEPT ![CmdOf(c)] = st]
    /\ UNCHANGED << callVars, cmd, fds, opened, buf, wrote, childIn, childEOF, reaped,
                    procErr, watch, watchErr >>

\* ------------------------------------------------------------- cancellation
\* The caller cancels the context of a call that has not returned.
Cancel(c) ==
    /\ pc[c] \notin {"idle", "done"}
    /\ world[c].ctx = "cancellable"
    /\ ctx[c] = "live"
    /\ ctx' = [ctx EXCEPT ![c] = "cancelled"]
    /\ UNCHANGED << svc, req, world, pc, err, result, wg, cp, copyErr, inPos, sink, logs,
                    hookCalls, lfsCalls, cmdVars >>

\* exec.Command in place of exec.CommandContext: nothing signals the child.
KillNothing(st) == st

\* Process.Kill, which exec.CommandContext sets as cmd.Cancel: a running
\* child dies of SIGKILL; one that has exited is unchanged.
Kill(st) == IF st = "running" THEN "killed" ELSE st

\* The watchCtx goroutine that cmd.Start started (exec.CommandContext, line
\* 61): on ctx.Done it calls cmd.Cancel, which is Process.Kill.  Kill of a
\* process that Process.Wait has reaped gives os.ErrProcessDone and no error
\* is reported; otherwise the signal is sent and ctx.Err() is reported.
WatchCtx(c) ==
    /\ watch[CmdOf(c)] = "watching"
    /\ ctx[c] = "cancelled"
    /\ watch' = [watch EXCEPT ![CmdOf(c)] = "fired"]
    /\ watchErr' = [watchErr EXCEPT ![CmdOf(c)] =
                      IF reaped[CmdOf(c)] THEN NilErr
                      ELSE Err("ctx", "context canceled", <<>>)]
    /\ child' = [child EXCEPT ![CmdOf(c)] = Kill(@)]
    /\ UNCHANGED << callVars, cmd, fds, opened, buf, wrote, childIn, childEOF, reaped,
                    procErr >>

\* ------------------------------------------------------------ specification
Step(c) ==
    \/ Handler(c) \/ LFSTransfer(c) \/ LFSAuthenticate(c)
    \/ Build(c) \/ Hook(c) \/ StdinPipe(c) \/ StdoutPipe(c) \/ StderrPipe(c)
    \/ Start(c) \/ GoStdin(c) \/ GoStdout(c) \/ GoStderr(c)
    \/ WgWait(c) \/ ProcWait(c) \/ WaitFinish(c)
    \/ CopyStdin(c) \/ CopyStdout(c) \/ CopyStderr(c)
    \/ ChildRead(c) \/ ChildWrite(c) \/ ChildExit(c)
    \/ Cancel(c) \/ WatchCtx(c)

Next == \E c \in Calls : Step(c)

\* ----------------------------------------------------------- initial states
GitServices == {UploadPackService, UploadArchiveService, ReceivePackService}
SrcKinds == {"eof", "faulty", "stall"}
StartKinds == {"ok", "lookpath", "ENOENT", "EACCES"}

Config(s, r, w, a) == [svc |-> s, req |-> r, world |-> w, active |-> a]

\* A call that is never made.
IdleConfig(c) ==
    Config(UploadPackService, Request(c, FALSE, FALSE, FALSE, 0, FALSE, 0, "nil"),
           World("eof", FALSE, FALSE, FreeChild, "none", "ok", "cancellable"), FALSE)

\* Every service value, with and without extra arguments, environment and
\* CmdFunc, no stream supplied; every way the start can fail.
DispatchConfigs(c) ==
    { Config(s, Request(c, FALSE, FALSE, FALSE, 0, e, n, h),
             World("eof", FALSE, FALSE, FreeChild, "none", st, "cancellable"), TRUE) :
        s \in ServiceValues, e \in BOOLEAN, n \in 0..MaxArgs, h \in HookKinds,
        st \in StartKinds }

\* Every subset of the three streams, every input length up to MaxIn, every
\* end of the source, sinks that may reject a write, a child that may exit at
\* any time, every pipe whose creation may fail and every way the start can
\* fail.
StreamConfigs(c, children, srcs, sinkFails, starts, pipeFails) ==
    { Config(UploadPackService, Request(c, i, o, e, n, FALSE, 0, "nil"),
             World(src, o /\ fo, e /\ fe, ch, pf, st, "cancellable"), TRUE) :
        i \in BOOLEAN, o \in BOOLEAN, e \in BOOLEAN, n \in 0..MaxIn, src \in srcs,
        fo \in sinkFails, fe \in sinkFails, ch \in children,
        pf \in pipeFails, st \in starts }

\* All three streams and a CmdFunc supplied, and a pipe that cannot be
\* created.
HookedPipeFailConfigs(c) ==
    { Config(UploadPackService, Request(c, TRUE, TRUE, TRUE, 0, FALSE, 0, h),
             World("faulty", TRUE, TRUE, FreeChild, pf, "ok", "cancellable"), TRUE) :
        h \in HookKinds \ {"nil"}, pf \in {"in", "out", "err"} }

\* The configurations of StreamConfigs that differ in what the call can see.
Canonical(cfgs) ==
    { k \in cfgs :
        /\ ~k.req.stdin => k.req.input = <<>>
        /\ k.world.pipeFail # "none" =>
             /\ k.world.start = "ok"
             /\ CASE k.world.pipeFail = "in" -> k.req.stdin
                  [] k.world.pipeFail = "out" -> k.req.stdout
                  [] k.world.pipeFail = "err" -> k.req.stderr }

\* One call is made.
Init ==
    \E k \in DispatchConfigs(1) \cup HookedPipeFailConfigs(1) \cup
             Canonical(StreamConfigs(1, {FreeChild}, {"faulty"}, {TRUE}, StartKinds,
                                     {"none", "in", "out", "err"})) :
      InitWith([c \in Calls |-> IF c = 1 THEN k ELSE IdleConfig(c)])

Spec == Init /\ [][Next]_vars

\* Every step of a call but the caller's cancellation.
Progress(c) ==
    \/ Handler(c) \/ LFSTransfer(c) \/ LFSAuthenticate(c)
    \/ Build(c) \/ Hook(c) \/ StdinPipe(c) \/ StdoutPipe(c) \/ StderrPipe(c)
    \/ Start(c) \/ GoStdin(c) \/ GoStdout(c) \/ GoStderr(c)
    \/ WgWait(c) \/ ProcWait(c) \/ WaitFinish(c)
    \/ CopyStdin(c) \/ CopyStdout(c) \/ CopyStderr(c)
    \/ ChildRead(c) \/ ChildWrite(c) \/ ChildExit(c)
    \/ WatchCtx(c)

\* One call is made, of every service value without streams, or with any
\* subset of the streams and a child that reads its stdin to end-of-input,
\* writes MaxOut bytes to stdout and to stderr and then exits; the source is
\* empty or holds MaxIn bytes and ends, or never ends; the sinks accept every
\* write or may reject one.
InitLive ==
    \E k \in { Config(s, Request(1, FALSE, FALSE, FALSE, 0, FALSE, 0, "nil"),
                      World("eof", FALSE, FALSE, FullChild, "none", "ok", "cancellable"), TRUE) :
                 s \in ServiceValues } \cup
             { x \in Canonical(StreamConfigs(1, {FullChild}, {"eof", "stall"}, {FALSE, TRUE},
                                             {"ok"}, {"none"})) :
                 /\ x.req.stdout /\ x.req.stderr => x.world.sinkFail["out"] = x.world.sinkFail["err"]
                 /\ Len(x.req.input) \in IF x.world.src = "stall" THEN {0} ELSE {0, MaxIn} } :
      InitWith([c \in Calls |-> IF c = 1 THEN k ELSE IdleConfig(c)])

\* The Go scheduler runs every goroutine that can run, the operating system
\* runs the child, and a read or write that can return does: every step that
\* stays possible is taken.  Nothing obliges the caller to cancel.
SpecLive == InitLive /\ [][Next]_vars /\ WF_vars(\E c \in Calls : Progress(c))

\* More bytes than a read of the output copier and a full pipe take.
LongOut == PipeCap + 2

\* One call is made: of every service value without streams; or with an
\* input source that never ends, holding no byte or MaxIn bytes, any sinks,
\* which accept every write, and a child that may exit at any time or that
\* exits only at end-of-input; or with sinks that may reject a write and a
\* child that writes LongOut bytes to each of them and then exits.
InitStuck ==
    \E k \in { Config(s, Request(1, FALSE, FALSE, FALSE, 0, FALSE, 0, "nil"),
                      World("eof", FALSE, FALSE, FullChild, "none", "ok", "cancellable"), TRUE) :
                 s \in ServiceValues } \cup
             { Config(UploadPackService, Request(1, TRUE, o, e, n, FALSE, 0, "nil"),
                      World("stall", FALSE, FALSE, ch, "none", "ok", "cancellable"), TRUE) :
                 o \in BOOLEAN, e \in BOOLEAN, n \in {0, MaxIn}, ch \in {FreeChild, FullChild} } \cup
             { Config(UploadPackService, Request(1, FALSE, oe[1], oe[2], 0, FALSE, 0, "nil"),
                      World("eof", oe[1], oe[2],
                            Child("atEnd", IF oe[1] THEN LongOut ELSE 0,
                                  IF oe[2] THEN LongOut ELSE 0),
                            "none", "ok", "cancellable"), TRUE) :
                 oe \in {<<TRUE, FALSE>>, <<FALSE, TRUE>>, <<TRUE, TRUE>>} } :
      InitWith([c \in Calls |-> IF c = 1 THEN k ELSE IdleConfig(c)])

\* The fairness of SpecLive.
SpecStuck == InitStuck /\ [][Next]_vars /\ WF_vars(\E c \in Calls : Progress(c))

\* Every call is made, all of one kind: with one of the three streams (an
\* input source of one byte, or a sink and a child that writes one byte to
\* it), a context that is never cancelled and a child that reads its stdin to
\* end-of-input, writes and exits; or of a large-file service; or ("cancel")
\* call 1 without streams and with a context that can be cancelled, beside
\* calls with an output sink.  Each call has its own directory, environment,
\* argument and bytes.
ConcKinds == {"stdin", "stdout", "stderr", "cancel", "lfsTransfer", "lfsAuthenticate"}

ConcConfig(c, kind) ==
    CASE kind = "stdin" ->
           Config(ReceivePackService, Request(c, TRUE, FALSE, FALSE, 1, TRUE, 1, "nil"),
                  World("eof", FALSE, FALSE, Child("atEnd", 0, 0), "none", "ok", "background"), TRUE)
      [] kind = "stdout" ->
           Config(UploadPackService, Request(c, FALSE, TRUE, FALSE, 0, TRUE, 1, "nil"),
                  World("eof", FALSE, FALSE, Child("atEnd", 1, 0), "none", "ok", "background"), TRUE)
      [] kind = "stderr" ->
           Config(UploadArchiveService, Request(c, FALSE, FALSE, TRUE, 0, TRUE, 1, "nil"),
                  World("eof", FALSE, FALSE, Child("atEnd", 0, 1), "none", "ok", "background"), TRUE)
      [] kind = "cancel" ->
           Config(UploadPackService, Request(c, FALSE, FALSE, FALSE, 0, TRUE, 1, "nil"),
                  World("eof", FALSE, FALSE, Child("atEnd", 0, 0), "none", "ok", "cancellable"), TRUE)
      [] kind = "lfsTransfer" ->
           Config(LFSTransferService, Request(c, FALSE, FALSE, FALSE, 0, TRUE, 1, "nil"),
                  World("eof", FALSE, FALSE, Child("atEnd", 0, 0), "none", "ok", "background"), TRUE)
      [] kind = "lfsAuthenticate" ->
           Config(LFSAuthenticateService, Request(c, FALSE, FALSE, FALSE, 0, TRUE, 1, "nil"),
                  World("eof", FALSE, FALSE, Child("atEnd", 0, 0), "none", "ok", "background"), TRUE)

InitConc ==
    \E kind \in ConcKinds :
      InitWith([c \in Calls |->
                  IF kind = "cancel" /\ c # 1 THEN ConcConfig(c, "stdout")
                  ELSE ConcConfig(c, kind)])

SpecConc == InitConc /\ [][Next]_vars

\* ------------------------------------------------------------------ claims
Finished == {"done", "failed"}

\* C1: the exit wait (cmd.Wait) has begun only when no copier of the output
\* or of the error stream is running any more: every one that was started (one
\* per supplied sink) has finished.
C1_WaitAfterCopiers ==
    \A c \in Calls :
      pc[c] \in {"cmdWait", "cmdWaitCtx"} =>
        \A s \in OutStreams :
          /\ cp[c][s] # "run"
          /\ Supplied(c, s) => cp[c][s] \in Finished

C1_Witness ==
    /\ pc[1] = "cmdWait"
    /\ cp[1]["out"] = "done" /\ cp[1]["err"] = "done"
    /\ Len(sink[1]["out"]) = MaxOut /\ Len(sink[1]["err"]) = MaxOut

\* The caller's sink of stream s returned an error from a write.
SinkRejected(c, s) == copyErr[c][s] = Err("write", "sink", <<>>)

\* C2: when the call has returned and its child has exited with status zero,
\* every supplied sink that rejected no write holds exactly the bytes the
\* child wrote to that stream, in order.
C2_SinksComplete ==
    \A c \in Calls :
      (pc[c] = "done" /\ child[CmdOf(c)] = "exit0") =>
        \A s \in OutStreams :
          (Supplied(c, s) /\ ~SinkRejected(c, s)) => sink[c][s] = wrote[CmdOf(c)][s]

C2_Witness ==
    /\ pc[1] = "done" /\ child[1] = "exit0" /\ result[1] = NilErr
    /\ req[1].stdout /\ req[1].stderr
    /\ sink[1]["out"] = Bytes(1, "out", MaxOut)
    /\ sink[1]["err"] = Bytes(1, "err", MaxOut)

\* C3: the bytes the child has read and those in the stdin pipe are, in
\* order, the bytes of the source copied so far; the child reads end-of-input
\* only after the input copier has finished, and if its copy did not fail the
\* child has then read every byte of the source; a finished input copier has
\* closed the stdin pipe.
C3_InputDelivered ==
    \A c \in Calls :
      req[c].stdin =>
        /\ IsPrefix(childIn[CmdOf(c)], req[c].input)
        /\ child[CmdOf(c)] = "running" =>
             childIn[CmdOf(c)] \o buf[CmdOf(c)]["in"] = SubSeq(req[c].input, 1, inPos[c])
        /\ childEOF[CmdOf(c)] => cp[c]["in"] \in Finished
        /\ (childEOF[CmdOf(c)] /\ cp[c]["in"] = "done") => childIn[CmdOf(c)] = req[c].input
        /\ cp[c]["in"] \in Finished => "inW" \notin fds[CmdOf(c)]

C3_Witness ==
    /\ req[1].stdin /\ Len(req[1].input) = MaxIn
    /\ childEOF[1] /\ childIn[1] = req[1].input
    /\ cp[1]["in"] = "done"

\* C6: when a call has returned, no pipe end that it opened is open.
C6_PipesClosedAtReturn ==
    \A c \in Calls : pc[c] = "done" => fds[CmdOf(c)] = {}

\* C7: a call of Handler on a value that is none of the five services starts
\* no process, opens no pipe, calls no CmdFunc and no large-file handler, and
\* returns the unsupported-service error that names that value.
FiveServices == GitServices \cup {LFSTransferService, LFSAuthenticateService}

C7_Unsupported ==
    \A c \in Calls :
      svc[c] \notin FiveServices =>
        /\ child[CmdOf(c)] = "none"
        /\ opened[CmdOf(c)] = {}
        /\ cmd[CmdOf(c)] = NoCmd
        /\ hookCalls[c] = 0
        /\ lfsCalls[c] = <<>>
        /\ pc[c] \in {"idle", "handler", "done"}
        /\ pc[c] = "done" => result[c] = Err("unsupported", svc[c], <<>>)

C7_Witness ==
    /\ svc[1] = "git-bogus" /\ pc[1] = "done"
    /\ result[1].kind = "unsupported" /\ result[1].detail = "git-bogus"

\* C8: a call never returns a raw not-found error: neither the failed PATH
\* lookup of the executable nor ENOENT of the directory or executable.
RawNotFound(e) ==
    \/ e.kind = "exec.Error" /\ e.detail = "ErrNotFound"
    \/ e.kind = "PathError" /\ e.detail = "ENOENT"

C8_NotFoundIsInvalidRepo ==
    \A c \in Calls : pc[c] = "done" => ~RawNotFound(result[c])

\* C9: when the child has exited non-zero and the call returns the error of
\* that exit, the error carries the bytes the child wrote to its error
\* stream.
C9_ExitErrorCarriesStderr ==
    \A c \in Calls :
      (pc[c] = "done" /\ child[CmdOf(c)] = "exit1"
         /\ result[c].detail = "exit status 1") =>
        result[c].stderr = wrote[CmdOf(c)]["err"]

\* C4: a call whose input source ends, whose sinks accept every write and
\* whose child reads its stdin to end-of-input, writes more than a pipe
\* buffer to stdout and to stderr and then exits, returns, whatever streams
\* were supplied.
Reliable(c) ==
    /\ world[c].src = "eof"
    /\ \A s \in OutStreams : ~world[c].sinkFail[s]
    /\ world[c].child = FullChild

C4_Returns ==
    \A c \in Calls : (pc[c] = "handler" /\ Reliable(c)) ~> (pc[c] = "done")

\* The call has returned after its child read all its input and wrote more
\* than a pipe buffer to each output stream, with all three streams supplied
\* and without a cancellation.
C4_Witness ==
    /\ pc[1] = "done" /\ Reliable(1) /\ ctx[1] = "live"
    /\ req[1].stdin /\ req[1].stdout /\ req[1].stderr
    /\ Len(req[1].input) > PipeCap /\ childIn[1] = req[1].input
    /\ Len(sink[1]["out"]) > PipeCap /\ Len(sink[1]["err"]) > PipeCap

\* C5: once the context is cancelled while the child runs, the child is
\* terminated and the call returns.
C5_CancelReturns ==
    \A c \in Calls :
      (ctx[c] = "cancelled" /\ child[CmdOf(c)] = "running")
        ~> (pc[c] = "done" /\ child[CmdOf(c)] # "running")

\* The call has returned after a cancellation that killed a child which was
\* blocked on a full output pipe whose copier had failed.
C5_Witness ==
    /\ pc[1] = "done" /\ child[1] = "killed" /\ ctx[1] = "cancelled"
    /\ cp[1]["out"] = "failed" /\ Len(buf[1]["out"]) = PipeCap

\* The call has returned after a cancellation that killed a child which was
\* waiting for input that never came.
C5_WitnessStalled ==
    /\ pc[1] = "done" /\ child[1] = "killed" /\ world[1].src = "stall"
    /\ ~childEOF[1] /\ cp[1]["in"] = "run"

\* C10: calls that run at once do not touch each other: the bytes in a
\* call's sinks are bytes its own child wrote, in order; its child has read
\* bytes of its own input only; once built, its Cmd has its own directory,
\* arguments and environment; its child is killed only if its own context was
\* cancelled; and the error it returns is the one of its own child's exit
\* (or, its own context being cancelled, the context's).
OwnExit(c) ==
    CASE child[CmdOf(c)] = "exit1" -> result[c] = Err("ExitError", "exit status 1", <<>>)
      [] child[CmdOf(c)] = "killed" ->
           /\ result[c] = Err("ExitError", "signal: killed", <<>>)
           /\ ctx[c] = "cancelled"
      [] child[CmdOf(c)] = "exit0" ->
           \/ result[c] = NilErr
           \/ result[c] = Err("ctx", "context canceled", <<>>) /\ ctx[c] = "cancelled"
      [] OTHER -> result[c] = Err("ctx", "context canceled", <<>>) /\ ctx[c] = "cancelled"

C10_Independent ==
    \A c \in Calls :
      /\ \A s \in OutStreams :
           /\ IsPrefix(sink[c][s], Bytes(c, s, world[c].child.n[s]))
           /\ IsPrefix(sink[c][s], wrote[CmdOf(c)][s])
      /\ IsPrefix(childIn[CmdOf(c)], req[c].input)
      /\ pc[c] \notin {"idle", "handler", "build", "lfsTransfer", "lfsAuthenticate"}
           /\ HandlerBranch(svc[c]) = "git" =>
             /\ cmd[CmdOf(c)].dir = DirOf(c)
             /\ cmd[CmdOf(c)].args = BuildArgs(svc[c], ArgsOf(c, 1))
             /\ cmd[CmdOf(c)].env = Environ \o EnvOf(c)
      /\ child[CmdOf(c)] = "killed" => ctx[c] = "cancelled"
      /\ pc[c] = "done" /\ HandlerBranch(svc[c]) = "git" => OwnExit(c)

\* Two calls are under way at once, each child's byte in its own pipe.
C10_Witness ==
    /\ child[1] = "running" /\ child[2] = "running"
    /\ buf[1]["out"] = <<Byte(1, "out", 1)>>
    /\ buf[2]["out"] = <<Byte(2, "out", 1)>>
    /\ pc[1] = "wgWait" /\ pc[2] = "goStdout"

\* Two calls have returned, each sink holding its own child's byte and each
\* result its own child's exit.
C10_WitnessDone ==
    /\ pc[1] = "done" /\ pc[2] = "done"
    /\ sink[1]["out"] = <<Byte(1, "out", 1)>> /\ sink[2]["out"] = <<Byte(2, "out", 1)>>
    /\ child[1] = "exit1" /\ child[2] = "exit0"
    /\ result[1].kind = "ExitError" /\ result[2] = NilErr

\* C11: the error a call returns once its process has started is the one of
\* the child's exit (or, the exit being zero and the call's context
\* cancelled, the context's), whatever the copiers' copies ended with: nil for
\* exit status 0, the unchanged exit error for a non-zero exit.
C11_ExitStatusAlone ==
    \A c \in Calls :
      (pc[c] = "done" /\ child[CmdOf(c)] # "none") =>
        CASE child[CmdOf(c)] = "exit0" ->
               \/ result[c] = NilErr
               \/ ctx[c] = "cancelled" /\ result[c] = Err("ctx", "context canceled", <<>>)
          [] child[CmdOf(c)] = "exit1" -> result[c] = Err("ExitError", "exit status 1", <<>>)
          [] OTHER -> result[c] = Err("ExitError", "signal: killed", <<>>)

\* The call has returned nil for a zero exit although the input copy and the
\* output copy both failed.
C11_Witness ==
    /\ pc[1] = "done" /\ child[1] = "exit0" /\ result[1] = NilErr /\ ctx[1] = "live"
    /\ copyErr[1]["in"] \notin {NilErr, Pending}
    /\ copyErr[1]["out"] = Err("write", "sink", <<>>)

\* The argument list the claim of C12 gives for call c: the name of the
\* program, the five flags, the short name of the service, the caller's
\* arguments and ".".
ShortName(s) ==
    CASE s = UploadPackService -> "upload-pack"
      [] s = UploadArchiveService -> "upload-archive"
      [] s = ReceivePackService -> "receive-pack"

ExpectedArgs(c) ==
    << "git", "-c", "uploadpack.allowFilter=true", "-c", "receive.advertisePushOptions=true",
       "-c", "filter.lfs.required=", "-c", "filter.lfs.smudge=", "-c", "filter.lfs.clean=",
       ShortName(svc[c]) >> \o req[c].args \o << "." >>

\* C12 as stated: the argument list that gitServiceHandler has built is the
\* expected one, and so is the one the process is started with, which ends
\* with ".".
C12_ArgsAtStart ==
    \A c \in Calls :
      svc[c] \in GitServices =>
        /\ pc[c] = "hook" => cmd[CmdOf(c)].args = ExpectedArgs(c)
        /\ child[CmdOf(c)] # "none" =>
             /\ cmd[CmdOf(c)].args = ExpectedArgs(c)
             /\ cmd[CmdOf(c)].args[Len(cmd[CmdOf(c)].args)] = "."

\* C12 amended: the argument list that gitServiceHandler has built is the
\* expected one; the process is started with it, and so with "." last,
\* unless the CmdFunc changed the argument list.
C12_ArgsBuilt ==
    \A c \in Calls :
      svc[c] \in GitServices =>
        /\ pc[c] = "hook" => cmd[CmdOf(c)].args = ExpectedArgs(c)
        /\ (child[CmdOf(c)] # "none" /\ req[c].hook \in {"nil", "keep"}) =>
             /\ cmd[CmdOf(c)].args = ExpectedArgs(c)
             /\ cmd[CmdOf(c)].args[Len(cmd[CmdOf(c)].args)] = "."

\* A receive-pack process runs with MaxArgs extra arguments before the ".",
\* after a CmdFunc that left the Cmd as it was.
C12_Witness ==
    /\ svc[1] = ReceivePackService /\ child[1] = "running" /\ req[1].hook = "keep"
    /\ Len(req[1].args) = MaxArgs
    /\ cmd[1].args = BuildArgs(ReceivePackService, ArgsOf(1, MaxArgs))
    /\ cmd[1].args[Len(SafetyFlags) + 2] = "receive-pack"

\* C13: whenever the copy of a stream has ended with an error, a record for
\* that stream that carries that error has been logged.
C13_CopyFaultLogged ==
    \A c \in Calls : \A s \in Streams :
      copyErr[c][s] \notin {NilErr, Pending} =>
        [stream |-> s, err |-> copyErr[c][s]] \in logs[c]

\* C16: a call whose child was killed by the cancellation of its context
\* returns ErrInvalidRepo.
C16_CancelIsInvalidRepo ==
    \A c \in Calls :
      (pc[c] = "done" /\ ctx[c] = "cancelled" /\ child[CmdOf(c)] = "killed") =>
        result[c] = ErrInvalidRepo

\* C17: in a call of gitServiceHandler the CmdFunc, if there is one, has been
\* called once as soon as the call is past line 85 and not at all before, also
\* when the call has returned for a failed pipe or start and while the process
\* runs; when it is called the Cmd has its directory, arguments and
\* environment and no process has been started.
C17_HookOnce ==
    \A c \in Calls :
      svc[c] \in GitServices =>
        /\ hookCalls[c] = IF req[c].hook # "nil" /\ pc[c] \notin {"idle", "handler", "build", "hook"}
                          THEN 1 ELSE 0
        /\ pc[c] = "hook" =>
             /\ cmd[CmdOf(c)].dir = req[c].dir
             /\ cmd[CmdOf(c)].args = ExpectedArgs(c)
             /\ cmd[CmdOf(c)].env = Environ \o req[c].env
             /\ child[CmdOf(c)] = "none" /\ opened[CmdOf(c)] = {}

\* The call has returned the error of a pipe that could not be created, two
\* pipes after its one call of the CmdFunc.
C17_Witness ==
    /\ pc[1] = "done" /\ req[1].hook = "keep" /\ hookCalls[1] = 1
    /\ result[1] = Err("pipe", "err", <<>>) /\ child[1] = "none"

\* The streams whose pipes are created after the one of s, and the places of
\* a call that has not got past the creation of the pipe of s.
LaterStreams(s) ==
    CASE s = "in" -> {"out", "err"} [] s = "out" -> {"err"} [] s = "err" -> {}

UpToPipe(s) ==
    {"idle", "handler", "build", "hook", "stdinPipe"}
      \cup (IF s \in {"out", "err"} THEN {"stdoutPipe"} ELSE {})
      \cup (IF s = "err" THEN {"stderrPipe"} ELSE {})

\* C18: a call for which the pipe of a requested stream s cannot be created
\* gets no further than that creation: it returns that error, no process is
\* started, no copier is spawned and no pipe of a later stream is created.
C18_PipeFailureReturns ==
    \A c \in Calls : \A s \in Streams :
      (world[c].pipeFail = s /\ Supplied(c, s) /\ svc[c] \in GitServices) =>
        /\ pc[c] \in UpToPipe(s) \cup {"done"}
        /\ pc[c] = "done" => result[c] = Err("pipe", s, <<>>)
        /\ child[CmdOf(c)] = "none" /\ watch[CmdOf(c)] = "none"
        /\ \A x \in Streams : cp[c][x] = "none"
        /\ wg[c] = 0
        /\ \A x \in LaterStreams(s) :
             ParentEnd(x) \notin opened[CmdOf(c)] /\ ChildEnd(x) \notin opened[CmdOf(c)]

\* The call has returned the error of the stdout pipe's creation, with the
\* stdin pipe created and the stderr pipe, which was asked for, not.
C18_Witness ==
    /\ pc[1] = "done" /\ result[1] = Err("pipe", "out", <<>>)
    /\ req[1].stdin /\ req[1].stderr
    /\ opened[1] = {"inW", "inR"} /\ child[1] = "none"

\* C19: a process is started only for the three git services and with the
\* short name of the service the call was made on, and a call on one of them
\* that returns without a failed pipe or start has started one; a large-file
\* handler is called only for its own service, once and with the request
\* unchanged, and a call on a large-file service starts no process, opens no
\* pipe and builds no Cmd.
C19_Dispatch ==
    \A c \in Calls :
      /\ child[CmdOf(c)] # "none" =>
           /\ svc[c] \in GitServices
           /\ cmd[CmdOf(c)].args[Len(SafetyFlags) + 2] = ShortName(svc[c])
      /\ svc[c] \in GitServices =>
           /\ lfsCalls[c] = <<>>
           /\ (pc[c] = "done" /\ result[c].kind \in {"nil", "ExitError"}) => child[CmdOf(c)] # "none"
      /\ lfsCalls[c] # <<>> =>
           /\ svc[c] \in {LFSTransferService, LFSAuthenticateService}
           /\ lfsCalls[c] = << [ handler |-> IF svc[c] = LFSTransferService
                                             THEN "LFSTransfer" ELSE "LFSAuthenticate",
                                 cmd |-> req[c] ] >>
      /\ svc[c] \in {LFSTransferService, LFSAuthenticateService} =>
           /\ child[CmdOf(c)] = "none" /\ opened[CmdOf(c)] = {} /\ cmd[CmdOf(c)] = NoCmd
           /\ hookCalls[c] = 0
           /\ pc[c] = "done" => Len(lfsCalls[c]) = 1

\* A call on the large-file-authenticate service has returned after handing
\* its request, CmdFunc and arguments included, to LFSAuthenticate.
C19_Witness ==
    /\ svc[1] = LFSAuthenticateService /\ pc[1] = "done"
    /\ lfsCalls[1] = << [handler |-> "LFSAuthenticate", cmd |-> req[1]] >>
    /\ req[1].hook = "append" /\ Len(req[1].args) = MaxArgs
    /\ child[1] = "none"

\* C14: a call whose input source never ends returns once its child has
\* exited: the output copiers read end-of-file and the stdin copier is not
\* waited for.
C14_ReturnsWithoutStdin ==
    \A c \in Calls :
      (world[c].src = "stall" /\ req[c].stdin /\ child[CmdOf(c)] \in {"exit0", "exit1", "killed"})
        ~> (pc[c] = "done")

\* The call has returned nil, its context not cancelled and both sinks
\* complete, while its stdin copier, which has copied every byte the source
\* held, is still blocked reading the source.
C14_Witness ==
    /\ pc[1] = "done" /\ result[1] = NilErr /\ ctx[1] = "live" /\ child[1] = "exit0"
    /\ world[1].src = "stall" /\ cp[1]["in"] = "run"
    /\ Len(req[1].input) = MaxIn /\ inPos[1] = MaxIn
    /\ req[1].stdout /\ sink[1]["out"] = Bytes(1, "out", MaxOut)
    /\ req[1].stderr /\ sink[1]["err"] = Bytes(1, "err", MaxOut)

\* C15: once the context of a call with a process is cancelled, no copier of
\* the call goes on running for ever.
C15_CopiersExitOnCancel ==
    \A c \in Calls :
      (ctx[c] = "cancelled" /\ child[CmdOf(c)] # "none")
        ~> (\A s \in Streams : cp[c][s] # "run")

\* C20: a call returns once a sink of it has rejected a write, also when the
\* child has then more than a pipe buffer of bytes left to write to that
\* stream.
C20_FailedCopyReturns ==
    \A c \in Calls : \A s \in OutStreams :
      (SinkRejected(c, s) /\ world[c].child.n[s] - Len(wrote[CmdOf(c)][s]) > PipeCap)
        ~> (pc[c] = "done")

====
